---- MODULE Spec2Model ----
(***************************************************************************)
(* Model of pbtranscript's post-quiver stage                               *)
(*   ice/IceQuiverPostprocess.py  (IceQuiverPostprocess)                   *)
(*   Utils.py                     (phred_to_qv, nfs_exists, ln)            *)
(*   io/FastqSplitter.py          (FastqSplitter.split, splitFastq)        *)
(* The job ledger, the scheduler's running set and the quivered output     *)
(* files form the environment; run() is a process whose position is pc.    *)
(***************************************************************************)
EXTENDS Integers, Sequences, FiniteSets, TLC

VARIABLES
    ledger,            \* lines of submitted_quiver_jobs.txt, each a sequence of words, tabs and blanks
    use_sge,           \* self.use_sge
    quit_if_not_done,  \* self.quit_if_not_done
    fs,                \* quivered dir: output file -> "missing" | "empty" | "valid"
    running,           \* job ids listed by qstat
    pc,                \* position of run()
    job_stats,         \* run()'s local job_stats
    fq_filenames,      \* self.fq_filenames
    ret,               \* outcome of run()
    obs,               \* what the last reconciliation pass saw and did (history)
    local_runs,        \* script -> number of local re-executions so far (history)
    pickups,           \* number of calls of pickup_best_clusters so far (history)
    ipq_opts,          \* QVPolicy: qv_trim_5, qv_trim_3, hq_quiver_min_accuracy
    content,           \* output file -> the reads a FastqReader yields from it
    uc,                \* final.pickle 'uc': cluster id -> full-length reads
    out,               \* the four streams written by pickup_best_clusters
    alias,             \* self.hq_isoforms_fa .. self.lq_isoforms_fq and what is at those paths
    nfs,               \* one call of Utils.nfs_exists: position, path, probes made
    splitter           \* one FastqSplitter and its call of split(): input, files written

\* the state of an IceQuiverPostprocess object and of its environment
ipqVars == <<ledger, use_sge, quit_if_not_done, fs, running, pc, job_stats,
             fq_filenames, ret, obs, local_runs, pickups, ipq_opts, content, uc, out,
             alias>>

\* the state of the calls of Utils functions that are followed step by step
utilVars == <<nfs, splitter>>

vars == <<ipqVars, utilVars>>

\* what run() up to the classification leaves alone
qvVars == <<pickups, ipq_opts, content, uc, out, alias, utilVars>>

-----------------------------------------------------------------------------
(* Bounds and domains *)

MaxLedger == 2

LocalMarker == "local"
SchedIds == {"j1", "j2"}
Scripts == {"x.sh", "y.sh"}
JobTokens == SchedIds \cup {LocalMarker}
FileStates == {"missing", "empty", "valid"}

\* op.join(self.quivered_dir, op.basename(sh_name).replace('.sh', '.quivered.fq'))
FqFilename(sh_name) ==
    CASE sh_name = "x.sh" -> "x.quivered.fq"
      [] sh_name = "y.sh" -> "y.quivered.fq"

FqFiles == {FqFilename(s) : s \in Scripts}

\* a ledger line of the documented format (lines 212-217): job id, tab, script, newline
Tab == "\t"
Newline == "\n"
RawLine(a, b) == <<a, Tab, b, Newline>>

Ledgers == UNION {[1..n -> {RawLine(a, b) : a \in JobTokens, b \in Scripts}] :
                     n \in 1..MaxLedger}

Perms(S) == {p \in [1..Cardinality(S) -> S] :
                \A i, j \in 1..Cardinality(S) : i # j => p[i] # p[j]}

SeqToSet(s) == {s[i] : i \in 1..Len(s)}

-----------------------------------------------------------------------------
(* Utils.nfs_exists(fn), lines 77-121, step by step.
   path is what fn is on the shared file system at this moment; probes are
   the errno values of the open() calls made so far, 0 for an open that
   succeeded. *)

ERROR_NO_SUCH_FILE_OR_DIRECTORY == 2
ERROR_IS_DIRECTORY == 21
EACCES == 13
EIO == 5
PathStates == {"file", "dir", "absent", "noperm", "ioerr"}

\* open(fn, 'r') on the path as it is now
OpenErrno(path) ==
    CASE path = "file" -> 0
      [] path = "absent" -> ERROR_NO_SUCH_FILE_OR_DIRECTORY
      [] path = "dir" -> ERROR_IS_DIRECTORY
      [] path = "noperm" -> EACCES
      [] path = "ioerr" -> EIO

NfsIdle == [pc |-> "idle", fn |-> "x.quivered.fq", path |-> "file", ls_rc |-> 0,
            probes |-> <<>>, slept |-> 0, result |-> FALSE]

\* mutant of AfterFirstOpen: a first 'no such file' is final
AfterFirstOpenWithoutRetry(errno) ==
    IF errno = 0 \/ errno = ERROR_IS_DIRECTORY
    THEN [pc |-> "done", result |-> TRUE]
    ELSE [pc |-> "done", result |-> FALSE]

\* lines 100-107 and 117-120: what follows the first open
AfterFirstOpen(errno) ==
    IF errno = 0 THEN [pc |-> "done", result |-> TRUE]
    ELSE IF errno = ERROR_NO_SUCH_FILE_OR_DIRECTORY THEN [pc |-> "sleep", result |-> FALSE]
    ELSE IF errno = ERROR_IS_DIRECTORY THEN [pc |-> "done", result |-> TRUE]
    ELSE [pc |-> "done", result |-> FALSE]

\* lines 108-116 and 121: what the second open returns
AfterSecondOpen(errno) ==
    IF errno = 0 THEN TRUE
    ELSE IF errno = ERROR_NO_SUCH_FILE_OR_DIRECTORY THEN FALSE
    ELSE IF errno = ERROR_IS_DIRECTORY THEN TRUE
    ELSE FALSE

\* line 95: ls, to trigger the mount; its return code is not used
NfsLs ==
    /\ nfs.pc = "ls"
    /\ \E rc \in {0, 2} : nfs' = [nfs EXCEPT !.pc = "open1", !.ls_rc = rc]
    /\ UNCHANGED <<ipqVars, splitter>>

\* lines 100-120
NfsOpen1 ==
    /\ nfs.pc = "open1"
    /\ nfs' = [nfs EXCEPT !.probes = Append(@, OpenErrno(nfs.path)),
                          !.pc = AfterFirstOpen(OpenErrno(nfs.path)).pc,
                          !.result = AfterFirstOpen(OpenErrno(nfs.path)).result]
    /\ UNCHANGED <<ipqVars, splitter>>

\* line 107: sleep(15)
NfsSleep ==
    /\ nfs.pc = "sleep"
    /\ nfs' = [nfs EXCEPT !.pc = "open2", !.slept = @ + 1]
    /\ UNCHANGED <<ipqVars, splitter>>

\* lines 108-116 and 121
NfsOpen2 ==
    /\ nfs.pc = "open2"
    /\ nfs' = [nfs EXCEPT !.probes = Append(@, OpenErrno(nfs.path)),
                          !.pc = "done",
                          !.result = AfterSecondOpen(OpenErrno(nfs.path))]
    /\ UNCHANGED <<ipqVars, splitter>>

\* the shared file system: another node creates, removes or changes the path
NfsPathChanges ==
    /\ nfs.pc \in {"ls", "open1", "sleep", "open2"}
    /\ \E st \in PathStates \ {nfs.path} : nfs' = [nfs EXCEPT !.path = st]
    /\ UNCHANGED <<ipqVars, splitter>>

-----------------------------------------------------------------------------
(* io/FastqSplitter.py: FastqSplitter.split(first_split), lines 45-66, one
   read of the input per step; splitFastq, lines 75-84, builds the object and
   calls split.  A read is its position in the input; an output file is named
   by its split index. *)

MaxReads == 4
MaxPerSplit == 3
MaxFirstSplit == 4
MaxSplitIndex == 999

InputFastqs == {[i \in 1..n |-> i] : n \in 0..MaxReads}

\* the first_split argument: None (the default) or a number
FirstSplitArgs ==
    {[given |-> FALSE, value |-> 0]} \cup {[given |-> TRUE, value |-> v] : v \in 0..MaxFirstSplit}

SplitterIdle ==
    [pc |-> "idle", input_fastq |-> <<>>, reads_per_split |-> 1, first_split |-> 1,
     ridx |-> 0, split_index |-> 0, files |-> <<>>, out_fns |-> <<>>, raised |-> ""]

UtilsIdle == nfs = NfsIdle /\ splitter = SplitterIdle

\* "{idx:03d}" for an index of at most three digits: the digits, zero-padded
Format03d(idx) == <<(idx \div 100) % 10, (idx \div 10) % 10, idx % 10>>

\* mutant of _out_fn: the name does not carry the index
_out_fnWithoutIndex(split_index) ==
    IF split_index > MaxSplitIndex THEN [raised |-> "ValueError", name |-> <<>>]
    ELSE [raised |-> "", name |-> Format03d(0)]

\* lines 36-43; out_dir and out_prefix are the same for every file of a call
_out_fn(split_index) ==
    IF split_index > MaxSplitIndex THEN [raised |-> "ValueError", name |-> <<>>]
    ELSE [raised |-> "", name |-> Format03d(split_index)]

\* lines 56-57: a new output file is started before this read is written
StartsNewSplit(sp) ==
    /\ \/ sp.split_index = 0 /\ sp.ridx = sp.first_split
       \/ sp.split_index > 0 /\ sp.ridx % sp.reads_per_split = 0
    /\ sp.ridx # 0

\* lines 48-53
SplitStart ==
    /\ splitter.pc = "constructed"
    /\ \E first_split \in FirstSplitArgs :
          splitter' = [splitter EXCEPT
                          !.pc = "reading",
                          !.split_index = 0,
                          !.out_fns = <<_out_fn(0).name>>,
                          !.files = << <<>> >>,
                          !.first_split = IF first_split.given THEN first_split.value
                                          ELSE splitter.reads_per_split]
    /\ UNCHANGED <<ipqVars, nfs>>

\* lines 55-62: one iteration of the loop over the reader
SplitRead ==
    /\ splitter.pc = "reading"
    /\ splitter.ridx < Len(splitter.input_fastq)
    /\ LET r == splitter.input_fastq[splitter.ridx + 1]
           next_index == splitter.split_index + 1
       IN IF StartsNewSplit(splitter)
          THEN IF _out_fn(next_index).raised # ""
               THEN splitter' = [splitter EXCEPT !.pc = "raised",
                                                 !.split_index = next_index,
                                                 !.raised = _out_fn(next_index).raised]
               ELSE splitter' = [splitter EXCEPT
                                    !.split_index = next_index,
                                    !.out_fns = Append(@, _out_fn(next_index).name),
                                    !.files = Append(@, <<r>>),
                                    !.ridx = @ + 1]
          ELSE splitter' = [splitter EXCEPT
                               !.files[splitter.split_index + 1] = Append(@, r),
                               !.ridx = @ + 1]
    /\ UNCHANGED <<ipqVars, nfs>>

\* lines 64-65: the reader is exhausted
SplitReturn ==
    /\ splitter.pc = "reading"
    /\ splitter.ridx = Len(splitter.input_fastq)
    /\ splitter' = [splitter EXCEPT !.pc = "returned"]
    /\ UNCHANGED <<ipqVars, nfs>>

-----------------------------------------------------------------------------
(* Job Ledger Reader: lines 224-236 *)

\* str.strip(): leading and trailing whitespace is dropped
IsSpace(atom) == atom \in {" ", Tab, Newline}
RECURSIVE strip(_)
strip(line) ==
    IF line = <<>> THEN <<>>
    ELSE IF IsSpace(line[Len(line)]) THEN strip(SubSeq(line, 1, Len(line) - 1))
    ELSE IF IsSpace(Head(line)) THEN strip(Tail(line))
    ELSE line

\* str.split('\t'): the fields between the tabs, one more than there are
\* tabs; field is the text read since the last tab
RECURSIVE SplitFields(_, _)
SplitFields(atoms, field) ==
    IF atoms = <<>> THEN <<field>>
    ELSE IF Head(atoms) = Tab THEN <<field>> \o SplitFields(Tail(atoms), "")
    ELSE SplitFields(Tail(atoms), field \o Head(atoms))

split(atoms) == SplitFields(atoms, "")

\* line 231, right-hand side: line.strip().split('\t')
Fields(line) == split(strip(line))

\* mutant of UnpackFails: only a line with fewer than two fields raises
UnpackFailsOnTooFew(line) == Len(Fields(line)) < 2

\* line 231, a, b = ...: ValueError unless there are exactly two fields
UnpackFails(line) == Len(Fields(line)) # 2

LedgerParseError(lg) == \E i \in 1..Len(lg) : UnpackFails(lg[i])

\* mutant of LineKey: every line is entered under its job id
LineKeyAlwaysJobId(line) == line[1]

\* the dictionary key a line <<a, b>> is entered under
LineKey(line) == IF line[1] = LocalMarker THEN line[2] ELSE line[1]

\* the pairs <<a, b>> of the lines, in file order
RECURSIVE Unpacked(_)
Unpacked(lg) == IF lg = <<>> THEN <<>> ELSE <<Fields(Head(lg))>> \o Unpacked(Tail(lg))

\* submitted: later lines overwrite earlier lines with the same key
ReadLedger(lg) ==
    LET ab == Unpacked(lg)
        keys == {LineKey(ab[i]) : i \in 1..Len(ab)}
        last(k) == CHOOSE i \in 1..Len(ab) :
                       /\ LineKey(ab[i]) = k
                       /\ \A j \in 1..Len(ab) : LineKey(ab[j]) = k => j <= i
    IN [k \in keys |-> ab[last(k)][2]]

sge_used(lg) == \E i \in 1..Len(lg) : Fields(lg[i])[1] # LocalMarker

\* line 238: qstat is read only when both flags are True
QstatQueried == sge_used(ledger) /\ use_sge = TRUE

-----------------------------------------------------------------------------
(* Job Reconciler: lines 238-279 *)

\* Utils.nfs_exists as seen by the reconciler: the path can be opened
nfs_exists(fn) == fs[fn] # "missing"

\* line 253-254: not nfs_exists(fq_filename) or os.stat(fq_filename).st_size == 0
OutputMissingOrEmpty(fn) == ~nfs_exists(fn) \/ fs[fn] = "empty"

\* mutants of DoneFlagAfterQstat: the qstat loop never clears done_flag;
\* done_flag starts False
DoneFlagIgnoringQstat(submitted) == TRUE
DoneFlagStartingFalse(submitted) == FALSE

\* lines 221 and 242-247: done_flag after reading qstat
DoneFlagAfterQstat(submitted) ==
    ~(QstatQueried /\ \E job_id \in running : job_id \in DOMAIN submitted)

\* lines 249-263, over the entries in iteration order `order`.
\* acc = [done_flag, bad_sh, fq_filenames, raised, qstat_read]; qstat_read says
\* whether running_jids was assigned (line 241); raised is the NameError of
\* line 255 when it was not.
RECURSIVE CheckEntries(_, _, _)
CheckEntries(order, submitted, acc) ==
    IF order = <<>> \/ acc.raised THEN acc
    ELSE LET job_id == Head(order)
             fq_filename == FqFilename(submitted[job_id])
         IN IF OutputMissingOrEmpty(fq_filename)
            THEN IF ~acc.qstat_read
                 THEN [acc EXCEPT !.raised = TRUE]
                 ELSE IF job_id \in running
                      THEN CheckEntries(Tail(order), submitted,
                                        [acc EXCEPT !.done_flag = FALSE])
                      ELSE CheckEntries(Tail(order), submitted,
                                        [acc EXCEPT !.bad_sh = Append(@, submitted[job_id])])
            ELSE CheckEntries(Tail(order), submitted,
                              [acc EXCEPT !.fq_filenames = Append(@, fq_filename)])

\* line 265-270: the local retry is attempted only in this branch
RetryAttempted(r) == ~r.raised /\ ~r.done_flag /\ Len(r.bad_sh) # 0

\* IceUtils.locally_run_failed_quiver_jobs(bad_sh): every script of the list is
\* run once, in order; oc[i] says whether run i leaves a valid output.
FsAfterLocalRuns(bad_sh, oc) ==
    [f \in FqFiles |->
        IF \E i \in 1..Len(bad_sh) : FqFilename(bad_sh[i]) = f /\ oc[i]
        THEN "valid" ELSE fs[f]]

locally_run_failed_quiver_jobs(bad_sh, oc) ==
    SelectSeq(bad_sh, LAMBDA sh : FsAfterLocalRuns(bad_sh, oc)[FqFilename(sh)] # "valid")

\* lines 265-279: the status returned
PassStatus(r, still_bad_sh) ==
    IF r.raised THEN "NameError"
    ELSE IF ~r.done_flag
         THEN IF Len(r.bad_sh) = 0 THEN "RUNNING"
              ELSE IF Len(still_bad_sh) > 0 THEN "FAILED" ELSE "DONE"
         ELSE "DONE"

\* mutant of FqFilenamesAtStart: the list of the pass before is kept
FqFilenamesKept == fq_filenames

\* line 223: self.fq_filenames = []
FqFilenamesAtStart == <<>>

\* lines 221-263 of one call, with the dictionary iterated in `order`
EntriesChecked(order, submitted) ==
    CheckEntries(order, submitted,
                 [done_flag |-> DoneFlagAfterQstat(submitted),
                  bad_sh |-> <<>>, fq_filenames |-> FqFilenamesAtStart, raised |-> FALSE,
                  qstat_read |-> QstatQueried])

\* the local re-executions a pass makes: one per element of bad_sh
LocalRuns(r) == IF RetryAttempted(r) THEN 1..Len(r.bad_sh) ELSE {}

\* one whole call of check_quiver_jobs_completion on a ledger that unpacks;
\* order is the iteration order of the dictionary submitted, oc the outcomes
\* of the local re-executions
check_quiver_jobs_completion(order, submitted) ==
    LET r == EntriesChecked(order, submitted)
        retry == RetryAttempted(r)
    IN \E oc \in [LocalRuns(r) -> BOOLEAN] :
        LET still_bad_sh == IF retry THEN locally_run_failed_quiver_jobs(r.bad_sh, oc) ELSE <<>>
        IN /\ fq_filenames' = r.fq_filenames
           /\ fs' = IF retry THEN FsAfterLocalRuns(r.bad_sh, oc) ELSE fs
           /\ local_runs' = IF retry
                            THEN [s \in Scripts |->
                                    local_runs[s] + Cardinality({i \in 1..Len(r.bad_sh) : r.bad_sh[i] = s})]
                            ELSE local_runs
           /\ job_stats' = PassStatus(r, still_bad_sh)
           /\ obs' = [fs |-> fs, running |-> running, queried |-> r.qstat_read,
                      retries |-> IF retry THEN <<r.bad_sh>> ELSE <<>>,
                      fs_after |-> fs', first |-> (pc = "start")]

\* lines 221-231 of a call that meets a line it cannot unpack: the ValueError
\* leaves the method after self.fq_filenames was reset
LedgerUnpackRaises ==
    /\ fq_filenames' = <<>>
    /\ job_stats' = "ValueError"
    /\ obs' = [fs |-> fs, running |-> running, queried |-> FALSE, retries |-> <<>>,
               fs_after |-> fs, first |-> (pc = "start")]
    /\ UNCHANGED <<fs, local_runs>>

\* all ways one pass can go
Pass ==
    IF LedgerParseError(ledger) THEN LedgerUnpackRaises
    ELSE LET submitted == ReadLedger(ledger)
         IN \E order \in Perms(DOMAIN submitted) :
                check_quiver_jobs_completion(order, submitted)

-----------------------------------------------------------------------------
(* Identifier Resolver: pickup_best_clusters, lines 319-328.
   A read name is a sequence of one-character strings. *)

Digits == <<"0", "1", "2", "3", "4", "5", "6", "7", "8", "9">>
IsDigit(ch) == \E d \in 1..10 : Digits[d] = ch
DigitVal(ch) == (CHOOSE d \in 1..10 : Digits[d] = ch) - 1

\* str.find(ch): 0-based index of the first occurrence, -1 when absent
find(str, ch) ==
    IF \E i \in 1..Len(str) : str[i] = ch
    THEN (CHOOSE i \in 1..Len(str) : str[i] = ch /\ \A j \in 1..(i - 1) : str[j] # ch) - 1
    ELSE -1

\* name.split('|')[0]
BeforeBar(name) == IF find(name, "|") < 0 THEN name ELSE SubSeq(name, 1, find(name, "|"))

\* cid.endswith('_ref')
EndsWithRef(str) ==
    Len(str) >= 4 /\ SubSeq(str, Len(str) - 3, Len(str)) = <<"_", "r", "e", "f">>

\* int(str) on a decimal literal; ok = FALSE is the ValueError
RECURSIVE DecimalValue(_)
DecimalValue(str) ==
    IF str = <<>> THEN 0
    ELSE 10 * DecimalValue(SubSeq(str, 1, Len(str) - 1)) + DigitVal(str[Len(str)])

int(str) ==
    IF str # <<>> /\ \A i \in 1..Len(str) : IsDigit(str[i])
    THEN [ok |-> TRUE, val |-> DecimalValue(str)]
    ELSE [ok |-> FALSE, val |-> -1]

\* lines 321-327
ResolveCid(name) ==
    LET c1 == BeforeBar(name)
        c2 == IF EndsWithRef(c1) THEN SubSeq(c1, 1, Len(c1) - 4) ELSE c1
        i  == find(c2, "/")
        c3 == IF i > 0 THEN SubSeq(c2, 1, i) ELSE c2
    IN int(SubSeq(c3, 2, Len(c3)))

-----------------------------------------------------------------------------
(* Quality Estimator: Utils.phred_to_qv and lines 333-338.
   Probabilities and accuracies are kept exactly, in thousandths. *)

MaxQLen == 3
MaxTrim == 2

Phreds == {0, 30}
MinAccuracies == {500, 999}

\* 10 ** -(phred / 10.0), in thousandths
phred_to_qv(phred) ==
    CASE phred = 0 -> 1000
      [] phred = 10 -> 100
      [] phred = 20 -> 10
      [] phred = 30 -> 1

Max(a, b) == IF a >= b THEN a ELSE b
Min(a, b) == IF a <= b THEN a ELSE b

\* a slice bound as Python normalises it for a sequence of length n
SliceIndex(i, n) == IF i < 0 THEN Max(i + n, 0) ELSE Min(i, n)

\* 0-based positions of q[start:stop]
SlicePositions(n, start, stop) ==
    {k \in 0..(n - 1) : SliceIndex(start, n) <= k /\ k < SliceIndex(stop, n)}

RECURSIVE SumOver(_, _)
SumOver(S, q) ==
    IF S = {} THEN 0
    ELSE LET k == CHOOSE k \in S : TRUE
         IN phred_to_qv(q[k + 1]) + SumOver(S \ {k}, q)

\* line 333
qv_len(r) == Max(0, Len(r.quality) - ipq_opts.qv_trim_5 - ipq_opts.qv_trim_3)

\* line 336: sum(q[self.qv_trim_5: -self.qv_trim_3])
err_sum(r) ==
    SumOver(SlicePositions(Len(r.quality), ipq_opts.qv_trim_5, 0 - ipq_opts.qv_trim_3),
            r.quality)

\* line 338, left operand: 1.0 - (err_sum / float(qv_len)) >= self.hq_quiver_min_accuracy
AccuracyOk(r) ==
    1000 * qv_len(r) - err_sum(r) >= ipq_opts.hq_quiver_min_accuracy * qv_len(r)

\* mutant of SupportOk: the support gate is dropped
SupportNotChecked(cid) == TRUE

\* line 338, right operand
SupportOk(cid) == Len(uc[cid]) >= 2

\* mutant of GoodOrError: the test qv_len != 0 of line 334 is dropped
GoodOrErrorWithoutWindowTest(cid, r) ==
    IF AccuracyOk(r)
    THEN IF cid \notin DOMAIN uc THEN 2
         ELSE IF SupportOk(cid) THEN 1 ELSE 0
    ELSE 0

\* lines 333-339: 0 = not good, 1 = good, 2 = KeyError at uc[cid]
GoodOrError(cid, r) ==
    IF qv_len(r) # 0 /\ AccuracyOk(r)
    THEN IF cid \notin DOMAIN uc THEN 2
         ELSE IF SupportOk(cid) THEN 1 ELSE 0
    ELSE 0

-----------------------------------------------------------------------------
(* Canonical output files: the properties of lines 281-307, as functions of
   the options they read.  A name is kept as the parts str.format joins; the
   root directory is the same for every run compared. *)

quivered_good_fa(opts) ==
    [stem |-> "all_quivered_hq", a |-> opts.qv_trim_5, b |-> opts.qv_trim_3,
     c |-> opts.hq_quiver_min_accuracy, ext |-> "fasta"]
quivered_good_fq(opts) ==
    [stem |-> "all_quivered_hq", a |-> opts.qv_trim_5, b |-> opts.qv_trim_3,
     c |-> opts.hq_quiver_min_accuracy, ext |-> "fastq"]
quivered_bad_fa(opts) == [stem |-> "all_quivered_lq", ext |-> "fasta"]
quivered_bad_fq(opts) == [stem |-> "all_quivered_lq", ext |-> "fastq"]

-----------------------------------------------------------------------------
(* Isoform Classifier: pickup_best_clusters, lines 309-384 *)

\* nfl_all pickle 'partial_uc'; partial_uc2 defaults a missing key to []
partial_uc == [c \in {1} |-> <<"p1">>]
partial_uc2(cid) == IF cid \in DOMAIN partial_uc THEN partial_uc[cid] ELSE <<>>

RECURSIVE ReadsOf(_)
ReadsOf(fqs) == IF fqs = <<>> THEN <<>> ELSE content[Head(fqs)] \o ReadsOf(Tail(fqs))

\* lines 317-328: quivered[cid] = r for every read, in order
RECURSIVE LoadQuivered(_, _)
LoadQuivered(reads, acc) ==
    IF reads = <<>> \/ acc.raised # "" THEN acc
    ELSE LET r == Head(reads)
             cid == ResolveCid(r.name)
         IN IF ~cid.ok THEN [acc EXCEPT !.raised = "ValueError"]
            ELSE LoadQuivered(Tail(reads),
                    [acc EXCEPT !.quivered =
                        [c \in DOMAIN @ \cup {cid.val} |-> IF c = cid.val THEN r ELSE @[c]]])

\* mutant of Ascending: the write loop stops after the first key
FirstKeyOnly(S) ==
    IF S = {} THEN <<>> ELSE << CHOOSE m \in S : \A x \in S : m <= x >>

\* the order in which the dictionary quivered yields its integer keys
RECURSIVE Ascending(_)
Ascending(S) ==
    IF S = {} THEN <<>>
    ELSE LET m == CHOOSE m \in S : \A x \in S : m <= x
         IN <<m>> \o Ascending(S \ {m})

\* files: the canonical files the writers of lines 353-356 have opened
EmptyOut == [opened |-> FALSE, files |-> {}, good_fa |-> <<>>, bad_fa |-> <<>>,
             good_fq |-> <<>>, bad_fq |-> <<>>]

\* lines 353-356
CanonicalFiles(opts) ==
    {quivered_good_fa(opts), quivered_bad_fa(opts),
     quivered_good_fq(opts), quivered_bad_fq(opts)}

\* lines 359-375: one record per cluster, to the good or to the bad writers
RECURSIVE WriteRecords(_, _, _, _)
WriteRecords(cids, quivered, good, acc) ==
    IF cids = <<>> \/ acc.raised # "" THEN acc
    ELSE LET cid == Head(cids)
             r == quivered[cid]
         IN IF cid \notin DOMAIN uc THEN [acc EXCEPT !.raised = "KeyError"]
            ELSE LET newname == [cid |-> cid, flnc_num |-> Len(uc[cid]),
                                 nfl_num |-> Len(partial_uc2(cid)),
                                 read_len |-> Len(r.quality)]
                     fa == [name |-> newname]
                     fq == [name |-> newname, quality |-> r.quality]
                 IN WriteRecords(Tail(cids), quivered, good,
                       IF cid \in good
                       THEN [acc EXCEPT !.out.good_fa = Append(@, fa),
                                        !.out.good_fq = Append(@, fq)]
                       ELSE [acc EXCEPT !.out.bad_fa = Append(@, fa),
                                        !.out.bad_fq = Append(@, fq)])

\* the whole of pickup_best_clusters(fqs): [raised, out]
pickup_best_clusters(fqs) ==
    LET loaded == LoadQuivered(ReadsOf(fqs), [raised |-> "", quivered |-> <<>>])
        quivered == loaded.quivered
        cids == Ascending(DOMAIN quivered)
        good == {cid \in DOMAIN quivered : GoodOrError(cid, quivered[cid]) = 1}
    IN IF loaded.raised # "" THEN [raised |-> loaded.raised, out |-> out]
       ELSE IF \E cid \in DOMAIN quivered : GoodOrError(cid, quivered[cid]) = 2
       THEN [raised |-> "KeyError", out |-> out]
       ELSE WriteRecords(cids, quivered, good,
                         [raised |-> "",
                          out |-> [EmptyOut EXCEPT !.opened = TRUE,
                                                   !.files = CanonicalFiles(ipq_opts)]])

-----------------------------------------------------------------------------
(* Stable aliases: Utils.ln, lines 378-386, and run(), lines 446-456.
   A path is kept as its parts, like the canonical names. *)

NoPath == [stem |-> "None", ext |-> ""]
hq_isoforms_fa == [stem |-> "hq_isoforms", ext |-> "fasta"]
hq_isoforms_fq == [stem |-> "hq_isoforms", ext |-> "fastq"]
lq_isoforms_fa == [stem |-> "lq_isoforms", ext |-> "fasta"]
lq_isoforms_fq == [stem |-> "lq_isoforms", ext |-> "fastq"]
AliasPaths == {hq_isoforms_fa, hq_isoforms_fq, lq_isoforms_fa, lq_isoforms_fq}

\* what is at a path: nothing, a regular file, or a symbolic link
Absent == [kind |-> "absent", to |-> NoPath]
RegularFile == [kind |-> "file", to |-> NoPath]
LinkTo(target) == [kind |-> "link", to |-> target]

\* mutant of ln: an existing dst is left as it is
lnKeepingExisting(src, dst, links) ==
    IF src # dst /\ links[dst].kind = "absent"
    THEN [links EXCEPT ![dst] = LinkTo(src)]
    ELSE links

\* Utils.ln(src, dst); realpath is abspath(expanduser(f)), it follows no link
ln(src, dst, links) ==
    IF src # dst
    THEN LET removed == IF links[dst].kind # "absent"
                        THEN [links EXCEPT ![dst] = Absent]
                        ELSE links
         IN [removed EXCEPT ![dst] = LinkTo(src)]
    ELSE links

\* run(), lines 446-456: one ln per alias that is not None
PublishAliases(conf, links) ==
    LET l1 == IF conf.hq_isoforms_fa # NoPath
              THEN ln(quivered_good_fa(ipq_opts), conf.hq_isoforms_fa, links) ELSE links
        l2 == IF conf.hq_isoforms_fq # NoPath
              THEN ln(quivered_good_fq(ipq_opts), conf.hq_isoforms_fq, l1) ELSE l1
        l3 == IF conf.lq_isoforms_fa # NoPath
              THEN ln(quivered_bad_fa(ipq_opts), conf.lq_isoforms_fa, l2) ELSE l2
        l4 == IF conf.lq_isoforms_fq # NoPath
              THEN ln(quivered_bad_fq(ipq_opts), conf.lq_isoforms_fq, l3) ELSE l3
    IN l4

\* no alias configured (the options' default), nothing at the alias paths
NoAliases ==
    [conf |-> [hq_isoforms_fa |-> NoPath, hq_isoforms_fq |-> NoPath,
               lq_isoforms_fa |-> NoPath, lq_isoforms_fq |-> NoPath],
     links |-> [p \in AliasPaths |-> Absent],
     initial |-> [p \in AliasPaths |-> Absent]]

-----------------------------------------------------------------------------
(* Polling Supervisor and Orchestrator: run(), lines 411-464 *)

\* lines 418-424 and 444: where run() goes after the first pass
AfterFirstCheck(stats) ==
    IF stats \in {"NameError", "ValueError"} THEN [pc |-> "raised", ret |-> stats]
    ELSE IF use_sge # TRUE /\ stats # "DONE" THEN [pc |-> "returned", ret |-> "-1"]
    ELSE IF use_sge = TRUE /\ stats # "DONE" THEN [pc |-> "sleep", ret |-> "none"]
    ELSE [pc |-> "pickup", ret |-> "none"]

\* mutant of AfterLoopCheck: FAILED falls through to the classification
AfterLoopCheckFailedFallsThrough(stats) ==
    IF stats \in {"NameError", "ValueError"} THEN [pc |-> "raised", ret |-> stats]
    ELSE IF stats = "DONE" \/ stats = "FAILED" THEN [pc |-> "pickup", ret |-> "none"]
    ELSE IF quit_if_not_done = TRUE THEN [pc |-> "returned", ret |-> "0"]
    ELSE [pc |-> "sleep", ret |-> "none"]

\* mutant of AfterLoopCheck: DONE does not leave the loop
AfterLoopCheckDoneKeepsPolling(stats) ==
    IF stats \in {"NameError", "ValueError"} THEN [pc |-> "raised", ret |-> stats]
    ELSE IF stats = "FAILED" THEN [pc |-> "returned", ret |-> "1"]
    ELSE IF stats = "RUNNING" /\ quit_if_not_done = TRUE THEN [pc |-> "returned", ret |-> "0"]
    ELSE [pc |-> "sleep", ret |-> "none"]

\* lines 428-442: where run() goes after a pass of the while loop
AfterLoopCheck(stats) ==
    IF stats \in {"NameError", "ValueError"} THEN [pc |-> "raised", ret |-> stats]
    ELSE IF stats = "DONE" THEN [pc |-> "pickup", ret |-> "none"]
    ELSE IF stats = "FAILED" THEN [pc |-> "returned", ret |-> "1"]
    ELSE IF quit_if_not_done = TRUE THEN [pc |-> "returned", ret |-> "0"]
    ELSE [pc |-> "sleep", ret |-> "none"]

\* line 415
FirstCheck ==
    /\ pc = "start"
    /\ Pass
    /\ pc' = AfterFirstCheck(job_stats').pc
    /\ ret' = AfterFirstCheck(job_stats').ret
    /\ UNCHANGED <<ledger, use_sge, quit_if_not_done, running, qvVars>>

\* lines 425-426: sleep(180)
Sleep ==
    /\ pc = "sleep"
    /\ pc' = "check"
    /\ UNCHANGED <<ledger, use_sge, quit_if_not_done, fs, running, job_stats,
                   fq_filenames, ret, obs, local_runs, qvVars>>

\* lines 427-442
LoopCheck ==
    /\ pc = "check"
    /\ Pass
    /\ pc' = AfterLoopCheck(job_stats').pc
    /\ ret' = AfterLoopCheck(job_stats').ret
    /\ UNCHANGED <<ledger, use_sge, quit_if_not_done, running, qvVars>>

\* line 444 and the rest of run()
AfterPickup(raised) ==
    IF raised # "" THEN [pc |-> "raised", ret |-> raised]
    ELSE [pc |-> "returned", ret |-> "None"]

\* lines 444-456: the classification, then the four ln calls
Pickup ==
    /\ pc = "pickup"
    /\ LET res == pickup_best_clusters(fq_filenames)
       IN /\ out' = res.out
          /\ alias' = IF res.raised # "" THEN alias
                       ELSE [alias EXCEPT !.links = PublishAliases(alias.conf, alias.links)]
          /\ pc' = AfterPickup(res.raised).pc
          /\ ret' = AfterPickup(res.raised).ret
    /\ pickups' = pickups + 1
    /\ UNCHANGED <<ledger, use_sge, quit_if_not_done, fs, running, job_stats,
                   fq_filenames, obs, local_runs, ipq_opts, content, uc, utilVars>>

-----------------------------------------------------------------------------
(* Environment: a scheduler job ends; its script has written a valid output,
   an empty one, or nothing *)

JobEnds ==
    /\ pc \in {"start", "sleep", "check"}
    /\ running # {}
    /\ \E i \in 1..Len(ledger) :
         LET ab == Fields(ledger[i])
         IN /\ Len(ab) = 2
            /\ ab[1] \in running
            /\ running' = running \ {ab[1]}
            /\ \E st \in {"valid", "empty", fs[FqFilename(ab[2])]} :
                 fs' = [fs EXCEPT ![FqFilename(ab[2])] = st]
    /\ UNCHANGED <<ledger, use_sge, quit_if_not_done, pc, job_stats,
                   fq_filenames, ret, obs, local_runs, qvVars>>

-----------------------------------------------------------------------------

\* what the jobs of the run write: one polished read per script
RunContent ==
    [f \in FqFiles |->
        IF f = "x.quivered.fq"
        THEN << [name |-> <<"c", "1", "/", "0", "|", "q">>, quality |-> <<30, 30, 30>>] >>
        ELSE << [name |-> <<"c", "2">>, quality |-> <<30, 0, 30>>] >>]

Init ==
    /\ ledger \in Ledgers
    /\ use_sge \in BOOLEAN
    /\ quit_if_not_done \in BOOLEAN
    /\ fs \in [FqFiles -> FileStates]
    /\ running \in SUBSET ({Fields(ledger[i])[1] : i \in 1..Len(ledger)} \ {LocalMarker})
    /\ pc = "start"
    /\ job_stats = "NONE"
    /\ fq_filenames = <<>>
    /\ ret = "none"
    /\ obs = [fs |-> fs, running |-> {}, queried |-> FALSE, retries |-> <<>>,
              fs_after |-> fs, first |-> FALSE]
    /\ local_runs = [s \in Scripts |-> 0]
    /\ pickups = 0
    /\ ipq_opts = [qv_trim_5 |-> 1, qv_trim_3 |-> 1, hq_quiver_min_accuracy |-> 999]
    /\ content = RunContent
    /\ uc = [c \in {1, 2} |-> <<"f1", "f2">>]
    /\ out = EmptyOut
    /\ alias = NoAliases
    /\ UtilsIdle

-----------------------------------------------------------------------------
(* Classification on its own: pickup_best_clusters applied to bounded inputs *)

Quals == UNION {[1..n -> Phreds] : n \in 1..MaxQLen}
NameC1 == <<"c", "1", "/", "0", "|", "q">>
NameC2 == <<"c", "2">>
SupportLists == {<<>>, <<"f1">>, <<"f1", "f2">>}

\* one read of cluster 1, or a read of cluster 1 followed by a read of cluster 2
QVReadLists ==
    {<< [name |-> n, quality |-> q] >> : n \in {NameC1, NameC2}, q \in Quals}
    \cup {<< [name |-> NameC1, quality |-> q1], [name |-> NameC2, quality |-> q2] >> :
             q1 \in Quals, q2 \in Quals}

InitQV ==
    /\ ledger = << RawLine(LocalMarker, "x.sh") >>
    /\ use_sge = FALSE
    /\ quit_if_not_done = TRUE
    /\ fs = [f \in FqFiles |-> "valid"]
    /\ running = {}
    /\ pc = "pickup"
    /\ job_stats = "DONE"
    /\ fq_filenames = <<"x.quivered.fq">>
    /\ ret = "none"
    /\ obs = [fs |-> fs, running |-> {}, queried |-> FALSE, retries |-> <<>>,
              fs_after |-> fs, first |-> TRUE]
    /\ local_runs = [s \in Scripts |-> 0]
    /\ pickups = 0
    /\ ipq_opts \in [qv_trim_5 : 0..MaxTrim, qv_trim_3 : 0..MaxTrim,
                      hq_quiver_min_accuracy : MinAccuracies]
    /\ \E rs \in QVReadLists :
          content = [f \in FqFiles |-> IF f = "x.quivered.fq" THEN rs ELSE <<>>]
    /\ uc \in [{1, 2} -> SupportLists]
    /\ out = EmptyOut
    /\ alias = NoAliases
    /\ UtilsIdle

NextQV == Pickup

SpecQV == InitQV /\ [][NextQV]_vars

Next == FirstCheck \/ Sleep \/ LoopCheck \/ Pickup \/ JobEnds

Spec == Init /\ [][Next]_vars

\* run() with the scheduler in use and quit_if_not_done unset, as a process
\* that keeps executing: each of its steps is taken once it is due.  Nothing
\* is assumed of the jobs.
InitLive == Init /\ use_sge = TRUE /\ quit_if_not_done = FALSE

\* sleep(180) returns; a pass and the classification are calls that return or
\* raise.  FirstCheck, LoopCheck and Pickup are enabled exactly when run() is
\* at their position and always leave it, so their weak fairness is the same
\* as run() not staying at that position for ever.
RunProceeds ==
    /\ WF_vars(Sleep)
    /\ []<>(pc # "start")
    /\ []<>(pc # "check")
    /\ []<>(pc # "pickup")

SpecLive == InitLive /\ [][Next]_vars /\ RunProceeds

-----------------------------------------------------------------------------
(* Classification of several completed files: read identifiers of every shape
   the resolver meets, the same cluster in one file or in two *)

ICNames ==
    { <<"c", "1">>, NameC2, <<"c", "1", "2">>,
      <<"c", "1", "_", "r", "e", "f">>,
      <<"c", "1", "/", "0">>, NameC1,
      <<"c", "2", "|", "q">>,
      <<"c", "2", "_", "r", "e", "f", "|", "q">>,
      <<"c", "1", "_", "r", "e", "f", "/", "0">>,
      <<"x", "1", "2">>, <<"1", "2">>, <<"x">> }

ICQuals == { <<30, 30, 30>>, <<30, 0, 30>> }
ICReads == [name : ICNames, quality : ICQuals]

\* a completed file holds one read or two
ICFileContents == {<<r>> : r \in ICReads} \cup {<<r1, r2>> : r1 \in ICReads, r2 \in ICReads}

InitIC ==
    /\ ledger = << RawLine(LocalMarker, "x.sh"), RawLine(LocalMarker, "y.sh") >>
    /\ use_sge = FALSE
    /\ quit_if_not_done = TRUE
    /\ fs = [f \in FqFiles |-> "valid"]
    /\ running = {}
    /\ pc = "pickup"
    /\ job_stats = "DONE"
    /\ fq_filenames \in { <<"x.quivered.fq">>, <<"x.quivered.fq", "y.quivered.fq">>,
                          <<"y.quivered.fq", "x.quivered.fq">> }
    /\ ret = "none"
    /\ obs = [fs |-> fs, running |-> {}, queried |-> FALSE, retries |-> <<>>,
              fs_after |-> fs, first |-> TRUE]
    /\ local_runs = [s \in Scripts |-> 0]
    /\ pickups = 0
    /\ ipq_opts = [qv_trim_5 |-> 1, qv_trim_3 |-> 1, hq_quiver_min_accuracy |-> 999]
    /\ \E cx \in ICFileContents, ry \in ICReads :
          content = [f \in FqFiles |-> IF f = "x.quivered.fq" THEN cx ELSE <<ry>>]
    /\ uc = [c \in {1, 2, 12} |-> <<"f1", "f2">>]
    /\ out = EmptyOut
    /\ alias = NoAliases
    /\ UtilsIdle

NextIC == Pickup

SpecIC == InitIC /\ [][NextIC]_vars

-----------------------------------------------------------------------------
(* run() on ledgers that hold lines of any field count *)

LedgerLines ==
    { RawLine(LocalMarker, "x.sh"), RawLine("j1", "y.sh"),
      <<" ", "j1", Tab, "y.sh", " ", Newline>>,
      <<"j1", Newline>>,
      <<"j1", Tab, Newline>>,
      <<"j1", " ", "x.sh", Newline>>,
      <<"j1", Tab, "x.sh", Tab, "x.sh", Newline>>,
      <<Newline>> }

\* a ledger of one line or of two
RawLedgers == {<<l>> : l \in LedgerLines} \cup {<<l1, l2>> : l1 \in LedgerLines, l2 \in LedgerLines}

InitLedger ==
    /\ ledger \in RawLedgers
    /\ use_sge \in BOOLEAN
    /\ quit_if_not_done \in BOOLEAN
    /\ fs \in [FqFiles -> {"missing", "valid"}]
    /\ running \in SUBSET {"j1"}
    /\ pc = "start"
    /\ job_stats = "NONE"
    /\ fq_filenames = <<>>
    /\ ret = "none"
    /\ obs = [fs |-> fs, running |-> {}, queried |-> FALSE, retries |-> <<>>,
              fs_after |-> fs, first |-> FALSE]
    /\ local_runs = [s \in Scripts |-> 0]
    /\ pickups = 0
    /\ ipq_opts = [qv_trim_5 |-> 1, qv_trim_3 |-> 1, hq_quiver_min_accuracy |-> 999]
    /\ content = RunContent
    /\ uc = [c \in {1, 2} |-> <<"f1", "f2">>]
    /\ out = EmptyOut
    /\ alias = NoAliases
    /\ UtilsIdle

SpecLedger == InitLedger /\ [][Next]_vars

-----------------------------------------------------------------------------
(* run() with stable aliases configured, over paths that may already hold
   something, and inputs on which the classification may fail while writing *)

\* the second read names cluster 3, which the consensus table does not hold;
\* its accuracy is too low for line 338 to look it up
ContentWithUnknownCluster ==
    [f \in FqFiles |->
        << [name |-> <<"c", "1", "/", "0", "|", "q">>, quality |-> <<30, 30, 30>>],
           [name |-> <<"c", "3">>, quality |-> <<30, 0, 30>>] >>]

AliasConfs ==
    [hq_isoforms_fa : {NoPath, hq_isoforms_fa}, hq_isoforms_fq : {NoPath, hq_isoforms_fq},
     lq_isoforms_fa : {NoPath, lq_isoforms_fa}, lq_isoforms_fq : {NoPath, lq_isoforms_fq}]

StaleTarget == [stem |-> "previous_run", ext |-> "fasta"]
AtAliasPath == {Absent, RegularFile, LinkTo(StaleTarget)}

InitPublish ==
    /\ ledger = <<RawLine("j1", "x.sh")>>
    /\ use_sge \in BOOLEAN
    /\ quit_if_not_done \in BOOLEAN
    /\ fs \in {f \in [FqFiles -> FileStates] : f["y.quivered.fq"] = "missing"}
    /\ running \in SUBSET {"j1"}
    /\ pc = "start"
    /\ job_stats = "NONE"
    /\ fq_filenames = <<>>
    /\ ret = "none"
    /\ obs = [fs |-> fs, running |-> {}, queried |-> FALSE, retries |-> <<>>,
              fs_after |-> fs, first |-> FALSE]
    /\ local_runs = [s \in Scripts |-> 0]
    /\ pickups = 0
    /\ ipq_opts = [qv_trim_5 |-> 1, qv_trim_3 |-> 1, hq_quiver_min_accuracy |-> 999]
    /\ content \in {RunContent, ContentWithUnknownCluster}
    /\ uc = [c \in {1, 2} |-> <<"f1", "f2">>]
    /\ out = EmptyOut
    /\ \E conf \in AliasConfs, hq \in AtAliasPath, lq \in AtAliasPath :
          LET at == [p \in AliasPaths |->
                        IF p = hq_isoforms_fa THEN hq
                        ELSE IF p = lq_isoforms_fq THEN lq ELSE Absent]
          IN alias = [conf |-> conf, links |-> at, initial |-> at]
    /\ UtilsIdle

SpecPublish == InitPublish /\ [][Next]_vars

-----------------------------------------------------------------------------
(* Utils functions on their own: the object is at rest *)

IpqAtRest ==
    /\ ledger = << RawLine(LocalMarker, "x.sh") >>
    /\ use_sge = FALSE
    /\ quit_if_not_done = TRUE
    /\ fs = [f \in FqFiles |-> "valid"]
    /\ running = {}
    /\ pc = "start"
    /\ job_stats = "NONE"
    /\ fq_filenames = <<>>
    /\ ret = "none"
    /\ obs = [fs |-> fs, running |-> {}, queried |-> FALSE, retries |-> <<>>,
              fs_after |-> fs, first |-> FALSE]
    /\ local_runs = [s \in Scripts |-> 0]
    /\ pickups = 0
    /\ ipq_opts = [qv_trim_5 |-> 1, qv_trim_3 |-> 1, hq_quiver_min_accuracy |-> 999]
    /\ content = RunContent
    /\ uc = [c \in {1, 2} |-> <<"f1", "f2">>]
    /\ out = EmptyOut
    /\ alias = NoAliases

InitNfs ==
    /\ IpqAtRest
    /\ splitter = SplitterIdle
    /\ \E fn \in FqFiles, st \in PathStates :
          nfs = [NfsIdle EXCEPT !.pc = "ls", !.fn = fn, !.path = st]

NextNfs == NfsLs \/ NfsOpen1 \/ NfsSleep \/ NfsOpen2 \/ NfsPathChanges

SpecNfs == InitNfs /\ [][NextNfs]_vars

\* splitFastq(input_fastq, reads_per_split, out_dir, out_prefix, first_split)
InitSplit ==
    /\ IpqAtRest
    /\ nfs = NfsIdle
    /\ \E input_fastq \in InputFastqs, reads_per_split \in 1..MaxPerSplit :
          splitter = [SplitterIdle EXCEPT !.pc = "constructed",
                                          !.input_fastq = input_fastq,
                                          !.reads_per_split = reads_per_split]

NextSplit == SplitStart \/ SplitRead \/ SplitReturn

SpecSplit == InitSplit /\ [][NextSplit]_vars

-----------------------------------------------------------------------------
(* The reconciliation pass, as the specification describes it.
   obs holds the files and the running set the last pass started from. *)

Submitted == ReadLedger(ledger)
EntryOutput(k) == FqFilename(Submitted[k])
PassReturned == job_stats \in {"RUNNING", "FAILED", "DONE"}

\* COMPLETE: the expected output exists and is non-empty
EntryComplete(k) == obs.fs[EntryOutput(k)] = "valid"
\* RUNNING: output missing or empty and job id in the running set
EntryRunning(k) == ~EntryComplete(k) /\ k \in obs.running
\* MISSING_OUTPUT: output missing or empty and job id not in the running set
EntryMissingOutput(k) == ~EntryComplete(k) /\ k \notin obs.running

FailedScripts == {Submitted[k] : k \in {e \in DOMAIN Submitted : EntryMissingOutput(e)}}

\* C1: a pass that queries the scheduler and finds an entry whose output is
\* missing or empty and whose job id is not running invokes the local retry
\* exactly once, on exactly the scripts of those entries, and returns DONE if
\* every retried output became valid and FAILED otherwise.
C1_RetryOnMissingOutput ==
    (job_stats # "NONE" /\ obs.queried /\ FailedScripts # {}) =>
        /\ Len(obs.retries) = 1
        /\ SeqToSet(obs.retries[1]) = FailedScripts
        /\ job_stats = IF \A sh \in FailedScripts : obs.fs_after[FqFilename(sh)] = "valid"
                       THEN "DONE" ELSE "FAILED"

\* C2 as stated: a pass returns RUNNING iff no entry is MISSING_OUTPUT and some
\* entry is RUNNING, an entry being RUNNING only when its output is missing or
\* empty and its job id is in the running set.
C2_RunningIffAsStated ==
    PassReturned =>
        (job_stats = "RUNNING" <=>
            /\ \A k \in DOMAIN Submitted : ~EntryMissingOutput(k)
            /\ \E k \in DOMAIN Submitted : EntryRunning(k))

\* C2 amended: a pass returns RUNNING iff it queried the scheduler, no entry is
\* MISSING_OUTPUT and the job id of at least one entry is in the running set,
\* whether or not that entry's output already exists and is non-empty.
C2_RunningIffJobListed ==
    PassReturned =>
        (job_stats = "RUNNING" <=>
            /\ obs.queried
            /\ \A k \in DOMAIN Submitted : ~EntryMissingOutput(k)
            /\ \E k \in DOMAIN Submitted : k \in obs.running)

\* a pass returned RUNNING although every output was there: a listed job did it
C2_Witness ==
    /\ job_stats = "RUNNING"
    /\ \A k \in DOMAIN Submitted : EntryComplete(k)
    /\ \E k \in DOMAIN Submitted : k \in obs.running

AllLocal == \A i \in 1..Len(ledger) : Fields(ledger[i])[1] = LocalMarker

\* C3 as stated: every output exists and is non-empty and no entry is RUNNING
\* => the pass returns DONE without a local retry; an all-local ledger with all
\* outputs present yields DONE with no scheduler query.
C3_DoneAsStated ==
    (/\ job_stats # "NONE"
     /\ \A k \in DOMAIN Submitted : EntryComplete(k)
     /\ \A k \in DOMAIN Submitted : ~EntryRunning(k)) =>
        /\ job_stats = "DONE"
        /\ obs.retries = <<>>
        /\ (AllLocal => ~obs.queried)

\* C3 amended: every output exists and is non-empty and no entry's job id is in
\* the running set read by the pass => DONE without a local retry; an all-local
\* ledger with all outputs present yields DONE with no scheduler query.
C3_DoneWhenCompleteAndUnlisted ==
    (/\ job_stats # "NONE"
     /\ \A k \in DOMAIN Submitted : EntryComplete(k)
     /\ \A k \in DOMAIN Submitted : ~(obs.queried /\ k \in obs.running)) =>
        /\ job_stats = "DONE"
        /\ obs.retries = <<>>
        /\ (AllLocal => ~obs.queried)

\* Scenario D: two local entries, both outputs present, DONE on the first check
C3_Witness ==
    /\ job_stats = "DONE"
    /\ obs.first
    /\ AllLocal
    /\ Cardinality(DOMAIN Submitted) = 2
    /\ \A k \in DOMAIN Submitted : EntryComplete(k)
    /\ obs.retries = <<>>

\* C4: with use_sge, a pass that returned FAILED (the first one included) ends
\* run() with the error outcome: nothing follows it.
C4_FailedIsTerminal ==
    (use_sge = TRUE /\ job_stats = "FAILED") => (pc = "returned" /\ ret = "1")

\* C5: with use_sge and quit_if_not_done, a pass that returned RUNNING (the
\* first one included) ends run() with the soft-stop outcome; the soft stop
\* happens on RUNNING only.
C5_QuitWhenRunning ==
    /\ (use_sge = TRUE /\ quit_if_not_done = TRUE /\ job_stats = "RUNNING") =>
            (pc = "returned" /\ ret = "0")
    /\ ret = "0" => (job_stats = "RUNNING" /\ quit_if_not_done = TRUE)

\* C6: without scheduler usage, an output missing or empty at the first pass
\* makes run() return -1, with no sleep, no classification and no output.
C6_IncompleteWithoutScheduler ==
    (/\ job_stats # "NONE" /\ obs.first /\ ~obs.queried
     /\ \E k \in DOMAIN Submitted : ~EntryComplete(k)) =>
        (pc = "returned" /\ ret = "-1" /\ pickups = 0 /\ ~out.opened)

\* C7: classification is invoked at most once and only from the position
\* reached when the most recent pass returned DONE; once it was invoked, run()
\* has ended, so neither a pass nor a sleep follows, and the status of the last
\* pass is still DONE, never RUNNING or FAILED.
C7_Fence ==
    /\ pickups <= 1
    /\ pc = "pickup" => (pickups = 0 /\ job_stats = "DONE")
    /\ pickups = 1 => (pc \in {"returned", "raised"} /\ job_stats = "DONE")

\* classification ran after a pass of the polling loop returned DONE
C7_Witness == pickups = 1 /\ ~obs.first /\ job_stats = "DONE" /\ out.opened

\* C8: over a whole run() no script is re-executed locally more than once.
C8_OneLocalRunPerScript == \A sh \in Scripts : local_runs[sh] <= 1

OutRecords(stream) == SeqToSet(stream)

\* C9: no record of the HQ outputs belongs to a cluster with fewer than 2
\* full-length reads.
C9_SupportFloor ==
    \A rec \in OutRecords(out.good_fa) \cup OutRecords(out.good_fq) :
        Len(uc[rec.name.cid]) >= 2

\* a cluster passing the accuracy test with one full-length read went to LQ
C9_Witness ==
    \E rec \in OutRecords(out.bad_fq) :
        /\ Len(uc[rec.name.cid]) = 1
        /\ qv_len(rec) # 0
        /\ AccuracyOk(rec)

\* the accuracy of section 4.4, in thousandths times the window length:
\* the bases at 0-based positions qv_trim_5 .. L - qv_trim_3 - 1
Window(q) == {k \in 0..(Len(q) - 1) :
                 ipq_opts.qv_trim_5 <= k /\ k <= Len(q) - ipq_opts.qv_trim_3 - 1}
WindowAccuracyAtLeastMin(q) ==
    1000 * Cardinality(Window(q)) - SumOver(Window(q), q)
        >= ipq_opts.hq_quiver_min_accuracy * Cardinality(Window(q))

\* C10: a cluster with a non-empty window, at least 2 full-length reads and
\* accuracy >= min_accuracy is HQ; a cluster with accuracy < min_accuracy is LQ.
C10_InclusiveThreshold ==
    /\ \A rec \in OutRecords(out.bad_fq) :
          ~(Window(rec.quality) # {} /\ Len(uc[rec.name.cid]) >= 2
                /\ WindowAccuracyAtLeastMin(rec.quality))
    /\ \A rec \in OutRecords(out.good_fq) :
          ~(Window(rec.quality) # {} /\ ~WindowAccuracyAtLeastMin(rec.quality))

\* C11: for every classified read whose window length L - qv_trim_5 -
\* qv_trim_3 is positive (qv_trim_3 = 0 included), the error sum used for the
\* accuracy is the sum of the error probabilities of exactly the bases at
\* positions qv_trim_5 .. L - qv_trim_3 - 1, and the divisor is the window
\* length.
C11_WindowErrorSum ==
    \A rec \in OutRecords(out.good_fq) \cup OutRecords(out.bad_fq) :
        Len(rec.quality) - ipq_opts.qv_trim_5 - ipq_opts.qv_trim_3 > 0 =>
            /\ err_sum(rec) = SumOver(Window(rec.quality), rec.quality)
            /\ qv_len(rec) = Cardinality(Window(rec.quality))

\* the reads of the files handed to the classification
InputReads == SeqToSet(ReadsOf(fq_filenames))
Unassessable(r) == ipq_opts.qv_trim_5 + ipq_opts.qv_trim_3 >= Len(r.quality)
CidsIn(stream) == {rec.name.cid : rec \in OutRecords(stream)}

\* C12: a read with qv_trim_5 + qv_trim_3 >= its quality length is classified
\* LQ whatever its quality values and its full-length support, and the
\* classification does not fail on it.
C12_UnassessableIsLQ ==
    pickups = 1 =>
        \A r \in InputReads :
            Unassessable(r) =>
                /\ ret = "None"
                /\ ResolveCid(r.name).val \in CidsIn(out.bad_fa) \cap CidsIn(out.bad_fq)
                /\ ResolveCid(r.name).val \notin CidsIn(out.good_fa) \cup CidsIn(out.good_fq)

\* trims exceed the length of a read of best quality with 2 full-length reads
C12_Witness ==
    /\ pickups = 1
    /\ \E r \in InputReads :
          /\ ipq_opts.qv_trim_5 + ipq_opts.qv_trim_3 > Len(r.quality)
          /\ \A i \in 1..Len(r.quality) : r.quality[i] = 30
          /\ Len(uc[ResolveCid(r.name).val]) >= 2
          /\ ResolveCid(r.name).val \in CidsIn(out.bad_fq)

\* number of records of a stream that carry the cluster id c
CountIn(stream, c) == Cardinality({i \in 1..Len(stream) : stream[i].name.cid = c})

\* C13: after pickup_best_clusters completes, every ClusterId among the reads
\* of the completed files has exactly one record in exactly one of the HQ and
\* LQ groups, in the fasta and in the fastq stream of that same group.
C13_PartitionComplete ==
    (pickups = 1 /\ ret = "None") =>
        \A r \in InputReads :
            LET c == ResolveCid(r.name).val
            IN /\ CountIn(out.good_fa, c) + CountIn(out.bad_fa, c) = 1
               /\ CountIn(out.good_fq, c) = CountIn(out.good_fa, c)
               /\ CountIn(out.bad_fq, c) = CountIn(out.bad_fa, c)

\* two files, three distinct clusters, records in both groups
C13_Witness ==
    /\ pickups = 1 /\ ret = "None"
    /\ Len(fq_filenames) = 2
    /\ Cardinality({ResolveCid(r.name).val : r \in InputReads}) = 3
    /\ out.good_fq # <<>>
    /\ out.bad_fq # <<>>

\* positions of the concatenated completed files whose read resolves to c
PositionsOf(c) ==
    {i \in 1..Len(ReadsOf(fq_filenames)) :
        ResolveCid(ReadsOf(fq_filenames)[i].name) = [ok |-> TRUE, val |-> c]}
DuplicatedCids == {c \in DOMAIN uc : Cardinality(PositionsOf(c)) >= 2}

\* C14: two reads of the completed files (same file or different files) that
\* resolve to the same ClusterId make the classification fail with an error;
\* it does not keep one of them and write outputs.
C14_DuplicateFailsLoudly ==
    (pickups = 1 /\ DuplicatedCids # {}) => (pc = "raised" /\ ~out.opened)

\* the permutations of the list of completed files
Reorderings(fqs) == {[i \in 1..Len(fqs) |-> fqs[p[i]]] : p \in Perms(1..Len(fqs))}

\* C15: with the policy and both support mappings fixed, pickup_best_clusters
\* on any permutation of the list of completed files produces the same set of
\* HQ ClusterIds and the same set of LQ ClusterIds.
C15_OrderIndependent ==
    (pickups = 1 /\ ret = "None") =>
        \A fqs \in Reorderings(fq_filenames) :
            /\ pickup_best_clusters(fqs).raised = ""
            /\ CidsIn(pickup_best_clusters(fqs).out.good_fq) = CidsIn(out.good_fq)
            /\ CidsIn(pickup_best_clusters(fqs).out.bad_fq) = CidsIn(out.bad_fq)

\* the policies a second run in the same root directory may have
Policies == [qv_trim_5 : 0..MaxTrim, qv_trim_3 : 0..MaxTrim,
             hq_quiver_min_accuracy : MinAccuracies]

\* C16: the name of each of the four canonical files written by a
\* classification encodes the policy triple: a run in the same root directory
\* with a different policy writes none of the files this run has written.
C16_NamesEncodePolicy ==
    \A other \in Policies \ {ipq_opts} :
        /\ quivered_good_fa(other) \notin out.files
        /\ quivered_good_fq(other) \notin out.files
        /\ quivered_bad_fa(other) \notin out.files
        /\ quivered_bad_fq(other) \notin out.files

\* the key section 4.1 gives line i: its script for a local line, its job id
\* for any other line
KeyOfLine(i) ==
    IF Fields(ledger[i])[1] = "local" THEN Fields(ledger[i])[2] ELSE Fields(ledger[i])[1]
LastWithKey(i) == \A j \in (i + 1)..Len(ledger) : KeyOfLine(j) # KeyOfLine(i)

\* C17: a pass enters every local line under its script with the script as
\* value, without marking scheduler usage, and every other line under its job
\* id with the script as value, marking scheduler usage; scheduler usage is
\* active iff the ledger has a line that is not local.  (The entry of a line
\* is read back from the mapping where no later line has the same key.)
C17_LedgerReading ==
    job_stats # "NONE" =>
        /\ DOMAIN Submitted = {KeyOfLine(i) : i \in 1..Len(ledger)}
        /\ \A i \in 1..Len(ledger) :
              LastWithKey(i) => Submitted[KeyOfLine(i)] = Fields(ledger[i])[2]
        /\ sge_used(ledger) <=> \E i \in 1..Len(ledger) : Fields(ledger[i])[1] # "local"
        /\ obs.queried <=>
              (use_sge = TRUE /\ \E i \in 1..Len(ledger) : Fields(ledger[i])[1] # "local")

\* a pass has read a ledger of one local line and one scheduler line
C17_Witness ==
    /\ job_stats # "NONE"
    /\ Len(ledger) = 2
    /\ Fields(ledger[1]) = <<"local", "x.sh">>
    /\ Fields(ledger[2]) = <<"j1", "y.sh">>
    /\ Submitted = [k \in {"x.sh", "j1"} |-> IF k = "j1" THEN "y.sh" ELSE "x.sh"]
    /\ obs.queried

\* the tabs of a line between its first and its last non-blank symbol: a line
\* has exactly two tab-separated fields iff there is exactly one
InnerTabs(line) ==
    {i \in 1..Len(line) :
        /\ line[i] = Tab
        /\ \E j \in 1..(i - 1) : line[j] \notin {" ", Tab, Newline}
        /\ \E j \in (i + 1)..Len(line) : line[j] \notin {" ", Tab, Newline}}
Malformed(line) == Cardinality(InnerTabs(line)) # 1

\* C18: a ledger line that does not have exactly two tab-separated fields
\* after stripping makes the pass raise: it returns no status, the line is
\* not skipped, and neither classification nor output follows.
C18_MalformedLineIsFatal ==
    (pc # "start" /\ \E i \in 1..Len(ledger) : Malformed(ledger[i])) =>
        /\ pc = "raised"
        /\ ret = "ValueError"
        /\ job_stats \notin {"RUNNING", "FAILED", "DONE"}
        /\ pickups = 0
        /\ ~out.opened

\* a well-formed line before a line of three fields: the pass raised
C18_Witness ==
    /\ pc = "raised"
    /\ ret = "ValueError"
    /\ Len(ledger) = 2
    /\ ~Malformed(ledger[1])
    /\ Cardinality(InnerTabs(ledger[2])) = 2

\* the grammar of section 4.5, read off the identifier itself:
\* 'c', digits, then nothing or '_ref', then nothing or '/' and a suffix,
\* then nothing or '|' and an annotation
DigitRun(name) ==
    CHOOSE n \in 0..(Len(name) - 1) :
        /\ \A i \in 2..(n + 1) : IsDigit(name[i])
        /\ (n + 2 <= Len(name) => ~IsDigit(name[n + 2]))
AfterDigits(name) == SubSeq(name, DigitRun(name) + 2, Len(name))
AfterRef(name) ==
    IF Len(AfterDigits(name)) >= 4
          /\ SubSeq(AfterDigits(name), 1, 4) = <<"_", "r", "e", "f">>
    THEN SubSeq(AfterDigits(name), 5, Len(AfterDigits(name)))
    ELSE AfterDigits(name)
FollowsGrammar(name) ==
    /\ name # <<>>
    /\ name[1] = "c"
    /\ DigitRun(name) >= 1
    /\ (AfterRef(name) = <<>> \/ AfterRef(name)[1] \in {"/", "|"})
GrammarCid(name) == DecimalValue(SubSeq(name, 2, DigitRun(name) + 1))

\* C19: a classification whose read identifiers all follow the grammar
\* ('c<digits>_ref/<suffix>' included) resolves each to the integer value of
\* its digits: it completes, and the ClusterIds written are those values.
C19_GrammarResolves ==
    (pickups = 1 /\ \A r \in InputReads : FollowsGrammar(r.name)) =>
        /\ ret = "None"
        /\ CidsIn(out.good_fq) \cup CidsIn(out.bad_fq)
               = {GrammarCid(r.name) : r \in InputReads}

\* the cluster token of an identifier: what precedes the first '|' or '/',
\* without a trailing '_ref'
TokenEnd(name) ==
    IF \E i \in 1..Len(name) : name[i] \in {"|", "/"}
    THEN (CHOOSE i \in 1..Len(name) :
             name[i] \in {"|", "/"} /\ \A j \in 1..(i - 1) : name[j] \notin {"|", "/"}) - 1
    ELSE Len(name)
ClusterToken(name) ==
    IF EndsWithRef(SubSeq(name, 1, TokenEnd(name)))
    THEN SubSeq(name, 1, TokenEnd(name) - 4)
    ELSE SubSeq(name, 1, TokenEnd(name))
TokenHasShape(name) ==
    /\ Len(ClusterToken(name)) >= 2
    /\ ClusterToken(name)[1] = "c"
    /\ \A i \in 2..Len(ClusterToken(name)) : IsDigit(ClusterToken(name)[i])

\* C20: a read whose cluster token is not of the shape 'c<digits>' makes the
\* classification fail with a parse error; the read gets no ClusterId and no
\* output is written.
C20_BadTokenFails ==
    (pickups = 1 /\ \E r \in InputReads : ~TokenHasShape(r.name)) =>
        (pc = "raised" /\ ret = "ValueError" /\ ~out.opened)

\* C21: a call of nfs_exists opens the path at most twice; it sleeps 15
\* seconds and opens once more iff the first open reported 'no such file or
\* directory'; it returns False for a path not found only after two such
\* opens, True as soon as an open succeeds or reports 'is a directory', and
\* False on any other error of an open.
C21_ProbesAtMostTwice ==
    /\ Len(nfs.probes) <= 2
    /\ nfs.slept <= 1
    /\ nfs.pc \in {"open2", "done"} => (nfs.slept = 1 <=> nfs.probes[1] = 2)
    /\ nfs.pc = "done" =>
          /\ Len(nfs.probes) = (IF nfs.probes[1] = 2 THEN 2 ELSE 1)
          /\ nfs.result = (nfs.probes[Len(nfs.probes)] \in {0, 21})
          /\ nfs.probes[Len(nfs.probes)] = 2 => nfs.probes = <<2, 2>>

\* not found at first, found by the second open after the sleep
C21_Witness ==
    /\ nfs.pc = "done"
    /\ nfs.probes = <<2, 0>>
    /\ nfs.slept = 1
    /\ nfs.result = TRUE

\* the canonical file an alias path stands for
CanonicalOf(p) ==
    IF p = hq_isoforms_fa THEN quivered_good_fa(ipq_opts)
    ELSE IF p = hq_isoforms_fq THEN quivered_good_fq(ipq_opts)
    ELSE IF p = lq_isoforms_fa THEN quivered_bad_fa(ipq_opts)
    ELSE quivered_bad_fq(ipq_opts)

Configured == {p \in AliasPaths : \E k \in DOMAIN alias.conf : alias.conf[k] = p}

\* C22: an alias path changes only in a run that ends normally, after the
\* classification wrote the four canonical files; and then every configured
\* alias is a link to the canonical file of its group and format, whatever was
\* at its path before, and every other alias path is as it was; on the error
\* and soft-stop outcomes no alias path has changed.
C22_AliasesPublishedAfterWrite ==
    /\ alias.links # alias.initial =>
          /\ ret = "None"
          /\ pickups = 1
          /\ out.opened /\ out.files = CanonicalFiles(ipq_opts)
    /\ ret = "None" =>
          \A p \in AliasPaths :
             alias.links[p] = IF p \in Configured THEN LinkTo(CanonicalOf(p))
                              ELSE alias.initial[p]

C22_Witness ==
    /\ ret = "None"
    /\ hq_isoforms_fa \in Configured
    /\ alias.initial[hq_isoforms_fa] = LinkTo(StaleTarget)
    /\ alias.links[hq_isoforms_fa] = LinkTo(quivered_good_fa(ipq_opts))
    /\ lq_isoforms_fq \notin Configured
    /\ alias.links[lq_isoforms_fq] = RegularFile

\* C23: the canonical output files are visible under their names only when
\* the classification has written all four streams to the end: a
\* classification that failed has left none of them behind.
C23_OutputsVisibleOnlyWhenComplete ==
    out.files # {} => ret = "None"

\* C24: whatever the input, reads_per_split >= 1 and first_split, no output
\* file of split() holds more than reads_per_split reads.
C24_AtMostReadsPerSplit ==
    \A i \in 1..Len(splitter.files) :
        Len(splitter.files[i]) <= splitter.reads_per_split

\* how often a path occurs in self.fq_filenames
TimesListed(p) == Cardinality({i \in 1..Len(fq_filenames) : fq_filenames[i] = p})

\* the entries whose expected output is p and was there, non-empty, in the pass
CompleteWithOutput(p) == {k \in DOMAIN Submitted : EntryOutput(k) = p /\ EntryComplete(k)}

C26_DoneMeansAllComplete ==
    job_stats = "DONE" =>
        \A k \in DOMAIN Submitted : obs.fs_after[EntryOutput(k)] = "valid"

\* C27: when run() invokes the classification, the list it passes holds the
\* expected output path of every entry of the ledger, the outputs recovered
\* by the local retry of the pass that returned DONE included.  Stated for
\* the runs in which every expected output is there when that pass returns.
C27_EveryEntryIsPassedOn ==
    (pickups = 1 /\ \A k \in DOMAIN Submitted : obs.fs_after[EntryOutput(k)] = "valid") =>
        \A k \in DOMAIN Submitted : EntryOutput(k) \in SeqToSet(fq_filenames)

\* C28: on a well-formed ledger, whatever use_sge is and whichever entries are
\* local, a pass ends by returning RUNNING, FAILED or DONE, also when the
\* scheduler was not queried and an output is missing or empty.
C28_PassReturnsStatus ==
    (job_stats # "NONE" /\ ~LedgerParseError(ledger)) => PassReturned

\* the script a well-formed ledger line refers to
ScriptOfLine(i) == Fields(ledger[i])[2]

\* C29: every line of the ledger is reconciled, none is lost when two lines
\* have the same key: after a pass that returned, the expected output of each
\* line's script has been checked, so if it existed and was non-empty in that
\* pass it is in self.fq_filenames.
C29_EveryLineReconciled ==
    PassReturned =>
        \A i \in 1..Len(ledger) :
            obs.fs[FqFilename(ScriptOfLine(i))] = "valid"
                => FqFilename(ScriptOfLine(i)) \in SeqToSet(fq_filenames)

\* run() has ended, by a return or by an error
Terminated == pc \in {"returned", "raised"}

\* an entry that is not in the running set has its valid output
LeftWithValidOutput ==
    \A k \in DOMAIN Submitted : k \notin running => fs[EntryOutput(k)] = "valid"

\* C30: with the scheduler in use and quit_if_not_done unset, if every job
\* leaves the running set with a valid non-empty output and all of them
\* eventually have left it, run() eventually observes DONE, calls the
\* classification and ends; and an execution in which run() never ends is one
\* in which the passes return RUNNING for ever.
C30_PollingTerminates ==
    /\ ([]LeftWithValidOutput /\ <>(running = {}))
          => <>(job_stats = "DONE" /\ pickups = 1 /\ Terminated)
    /\ <>Terminated \/ <>[](job_stats = "RUNNING")

\* run() polled, saw a job leave the running set, then DONE, and classified
C30_Witness ==
    /\ use_sge = TRUE /\ quit_if_not_done = FALSE
    /\ Terminated /\ pickups = 1 /\ job_stats = "DONE"
    /\ ~obs.first
    /\ running = {} /\ LeftWithValidOutput
    /\ \A s \in Scripts : local_runs[s] = 0

\* what a reader finds in the file named n: the records of the writer that
\* opened n last (FastqWriter truncates the file it opens)
RecordsIn(n) ==
    LET opened == {i \in 1..Len(splitter.out_fns) : splitter.out_fns[i] = n}
        last == CHOOSE i \in opened : \A j \in opened : j <= i
    IN splitter.files[last]

\* the records of the first k files of the returned list, in list order
RECURSIVE Concatenated(_)
Concatenated(k) ==
    IF k = 0 THEN <<>>
    ELSE Concatenated(k - 1) \o RecordsIn(splitter.out_fns[k])

\* C31: split() loses and duplicates nothing: the list it returns names
\* distinct files, with the indices 0, 1, 2, .. in order, and the records of
\* those files, concatenated in list order, are the input records in their
\* order, each once.
C31_SplitKeepsEveryRecord ==
    splitter.pc = "returned" =>
        /\ \A i \in 1..Len(splitter.out_fns) : splitter.out_fns[i] = Format03d(i - 1)
        /\ \A i, j \in 1..Len(splitter.out_fns) :
              i # j => splitter.out_fns[i] # splitter.out_fns[j]
        /\ Concatenated(Len(splitter.out_fns)) = splitter.input_fastq

\* a split into three files, the first cut short by first_split
C31_Witness ==
    /\ splitter.pc = "returned"
    /\ Len(splitter.out_fns) = 3
    /\ splitter.first_split < splitter.reads_per_split
    /\ Len(splitter.files[1]) = splitter.first_split
    /\ Len(splitter.input_fastq) = MaxReads

====
